---- MODULE Spec2Model ----
(***************************************************************************)
(* One run of the LinkedIn publishing program, from either entry point:    *)
(*   entry = "playwright" : linkedin_playwright.main -> get_image_path ->  *)
(*                          post_to_linkedin (browser automation)          *)
(*   entry = "api"        : main.main -> post_to_linkedin_and_update_sheet *)
(* The remote site, the sheet service, the network and the file system are *)
(* the environment: every call into them either succeeds or raises, chosen *)
(* nondeterministically.  Delays and random pixel/delay values are not     *)
(* modelled; the order and the outcome of the calls are.                   *)
(*                                                                         *)
(* Strings that the code inspects are sequences of tokens: a text is the   *)
(* sequence of its characters, an image cell and a URL are sequences of    *)
(* their parts, a path is the sequence of its components.                  *)
(***************************************************************************)
EXTENDS Integers, Sequences, FiniteSets, TLC

VARIABLES
    entry,          \* which script runs: "playwright" | "api"
    pc,             \* position of the run in the code
    exitStatus,     \* process exit status: -1 while running, then 0 or 1
    LINKEDIN_EMAIL, \* linkedin_playwright.py:17 (None or a text)
    LINKEDIN_PASSWORD, \* linkedin_playwright.py:18
    scriptDir,      \* os.path.dirname(__file__), a path
    data,           \* what get_sheet_data returns: <<headers, row, ...>>
    slot,           \* what get_time_slot returns
    rng,            \* the choices random.choice will make (indexes into the pools)
    post_text,      \* main: post_text / content_to_post
    image_path,     \* main: image_path, then post_to_linkedin's parameter
    files,          \* the paths that exist in the file system
    downloads,      \* number of requests.get calls made by get_image_path
    fingerprint,    \* user_agent, viewport, timezone, geolocation once chosen
    browser,        \* "unset" | "open" | "closed": the local `browser`
    launchArgs,     \* the --width/--height given to firefox.launch
    contextCfg,     \* the configuration given to browser.new_context
    page,           \* "unset" | "set": whether the local `page` is bound
    i,              \* loop index of the typing / scrolling loops
    exc,            \* the exception in flight (NoExc when none)
    stageFailure,   \* the exception a stage of the try block raised
    posted,         \* "Posted successfully" was printed
    log,            \* every external call made, in order
    current_url,    \* page.url as read after the landing wait failed
    apiSecrets,     \* main.py: all seven required secrets are set
    apiLib          \* main.py: state of the linkedin_api import
                    \*   "missing" | "no_create_post" | "ok"

vars == << entry, pc, exitStatus, LINKEDIN_EMAIL, LINKEDIN_PASSWORD, scriptDir,
           data, slot, rng, post_text, image_path, files, downloads,
           fingerprint, browser, launchArgs, contextCfg, page, i, exc,
           stageFailure, posted, log, current_url, apiSecrets, apiLib >>

(***************************************************************************)
(* Bounds of the model.                                                    *)
(***************************************************************************)
MaxCredLen == 1
MaxTextLen == 2

\* Python's None, for the values that are otherwise texts or paths
None == << "None" >>

\* the locals of post_to_linkedin before they are bound
NoFingerprint ==
    [ user_agent |-> "None", viewport |-> << 0, 0 >>, timezone |-> "None",
      geolocation |-> << 0, 0 >> ]

NoLaunchArgs == [width |-> 0, height |-> 0]

NoContextCfg ==
    [ viewport |-> [width |-> 0, height |-> 0], user_agent |-> "None",
      locale |-> "None", timezone_id |-> "None",
      geolocation |-> [latitude |-> 0, longitude |-> 0] ]

(***************************************************************************)
(* String helpers (tokens).                                                *)
(***************************************************************************)
RECURSIVE LStrip(_)
LStrip(s) == IF s # << >> /\ Head(s) = " " THEN LStrip(Tail(s)) ELSE s

RECURSIVE RStrip(_)
RStrip(s) ==
    IF s # << >> /\ s[Len(s)] = " " THEN RStrip(SubSeq(s, 1, Len(s) - 1)) ELSE s

\* str.strip()
Strip(s) == RStrip(LStrip(s))

\* str.startswith(prefix)
StartsWith(s, p) == Len(s) >= Len(p) /\ SubSeq(s, 1, Len(p)) = p

\* `part in url`
Contains(s, part) == \E k \in 1..Len(s) : s[k] = part

\* a test for None alone, which lets an empty text through
Falsy_NoneOnly(x) == x = None

\* `not x` for a value that is None or a text
Falsy(x) == x = None \/ x = << >>

Repeat(c, n) == [k \in 1..n |-> c]


(***************************************************************************)
(* Program constants.                                                      *)
(***************************************************************************)
\* linkedin_playwright.py:23-27 (text column, image column) and main.py:27-31
COLUMN_MAP ==
    [ morning   |-> << "Morning (1 PM)", "Morning Image" >>,
      afternoon |-> << "Afternoon (5 PM)", "Afternoon Image" >>,
      evening   |-> << "Evening (8 PM)", "Evening Image" >> ]

\* get_random_user_agent: the four user agents, by their browser
user_agents == << "Firefox/123.0", "Chrome/125.0.0.0", "Safari/605.1.15", "Edg/125.0.0.0" >>

\* get_random_viewport
sizes == << <<1920, 1080>>, <<1366, 768>>, <<1536, 864>>, <<1440, 900>>, <<1600, 900>> >>

\* get_random_timezone
timezones ==
    << "America/New_York", "Europe/London", "Europe/Paris", "Asia/Kolkata",
       "America/Los_Angeles" >>

\* get_random_geolocation, in units of 1/10000 degree
locations ==
    << <<407128, -740060>>, <<515074, -1278>>, <<488566, 23522>>,
       <<286139, 772090>>, <<340522, -1182437>> >>

\* tempfile.gettempdir()
TempDir == << "tmp" >>

\* IMAGES_DIR = os.path.join(os.path.dirname(__file__), 'images')
IMAGES_DIR == scriptDir \o << "images" >>

\* the name tempfile.NamedTemporaryFile(delete=False) gives the download
TempFile == TempDir \o << "tmpimg.jpg" >>

\* datetime.now().strftime('%Y-%m-%d')
today_str == "2026-11-04"

NoExc == [kind |-> "None", at |-> "None"]

(***************************************************************************)
(* The environments a run can start in.                                    *)
(***************************************************************************)
\* an unset variable, an empty one, and texts of each length
CredValues == {None} \cup { Repeat("x", n) : n \in 0..MaxCredLen }

\* the same for the password, with one length
PasswordValues == { None, << >>, Repeat("x", MaxCredLen) }

Texts == { << >>, << " " >> } \cup { Repeat("a", n) : n \in 1..MaxTextLen }

ImgCells ==
    { << >>, << " " >>,
      << "https://", "host/pic.png" >>, << " ", "http://", "host/pic.png" >>,
      << "a.jpg" >>, << "b.jpg", " " >> }

HeaderRows ==
    { << "Date", "Morning (1 PM)", "Morning Image" >>,
      << "Date", "Morning (1 PM)" >>,
      << "Date", "Morning Image" >> }

\* today's row: short, with each text, with each image cell, and with an
\* empty or blank text beside an image
ContentRows ==
    { << today_str >> }
    \cup { << today_str, t >> : t \in Texts }
    \cup { << today_str, Repeat("a", MaxTextLen), c >> : c \in ImgCells }
    \cup { << today_str, << >>, << "https://", "host/pic.png" >> >>,
           << today_str, << " " >>, << "a.jpg" >> >> }

OtherRow == << "2026-11-03", << "a" >>, << "a.jpg" >> >>

Sheets ==
    { << >> }
    \cup { << h >> : h \in HeaderRows }
    \cup { << h, OtherRow >> : h \in HeaderRows }
    \cup { << h, r >> : h \in HeaderRows, r \in ContentRows }
    \cup { << h, OtherRow, r >> : h \in HeaderRows, r \in { << today_str, << "a" >> >> } }

ScriptDirs == { << "home", "app" >>, << "tmp", "app" >> }

\* one random stream per candidate of the largest pool; every candidate of
\* every pool is drawn by one of them
Seeds ==
    { [ ua |-> ((k - 1) % Len(user_agents)) + 1, vp |-> k, tz |-> k, geo |-> k,
        scrolls |-> ((k - 1) % 3) + 1 ] : k \in 1..Len(sizes) }

InitRun ==
    /\ pc = "start"
    /\ exitStatus = -1
    /\ scriptDir \in ScriptDirs
    /\ data \in Sheets
    /\ slot \in {"morning", "evening"}
    /\ post_text = None
    /\ image_path = None
    /\ files = { IMAGES_DIR \o << "a.jpg" >> }
    /\ downloads = 0
    /\ fingerprint = NoFingerprint
    /\ browser = "unset"
    /\ launchArgs = NoLaunchArgs
    /\ contextCfg = NoContextCfg
    /\ page = "unset"
    /\ i = 0
    /\ exc = NoExc
    /\ stageFailure = NoExc
    /\ posted = FALSE
    /\ log = << >>
    /\ current_url = None

InitPlaywright ==
    /\ entry = "playwright"
    /\ LINKEDIN_EMAIL \in CredValues
    /\ LINKEDIN_PASSWORD \in PasswordValues
    /\ rng \in Seeds
    /\ apiSecrets = TRUE
    /\ apiLib = "ok"
    /\ InitRun

InitApi ==
    /\ entry = "api"
    /\ LINKEDIN_EMAIL = None
    /\ LINKEDIN_PASSWORD = None
    /\ rng \in { s \in Seeds : s.vp = 1 }
    /\ apiSecrets \in BOOLEAN
    /\ apiLib \in {"missing", "no_create_post", "ok"}
    /\ InitRun

Init == InitPlaywright \/ InitApi

(***************************************************************************)
(* The sheet lookup of main (both scripts).                                *)
(***************************************************************************)
headers == data[1]

\* the rows after the header that are today's
TodayIdx == { k \in 2..Len(data) : Len(data[k]) > 0 /\ data[k][1] = today_str }

HasTodayRow == TodayIdx # {}

\* the first of them (the loop breaks at the first match)
today_row == data[CHOOSE k \in TodayIdx : \A m \in TodayIdx : k <= m]

InHeaders(col) == \E k \in 1..Len(headers) : headers[k] = col

\* headers.index(col)
IndexOf(col) == CHOOSE k \in 1..Len(headers) : headers[k] = col /\ \A m \in 1..(k - 1) : headers[m] # col

text_col == COLUMN_MAP[slot][1]
img_col == COLUMN_MAP[slot][2]

\* linkedin_playwright.py:293
RowText == IF Len(today_row) >= IndexOf(text_col) THEN today_row[IndexOf(text_col)] ELSE << >>

\* linkedin_playwright.py:295
HasImageCell ==
    /\ InHeaders(img_col)
    /\ Len(today_row) >= IndexOf(img_col)
    /\ Strip(today_row[IndexOf(img_col)]) # << >>

ImageCell == Strip(today_row[IndexOf(img_col)])

IsUrl(cell) == StartsWith(cell, << "http://" >>) \/ StartsWith(cell, << "https://" >>)

\* the process ends with status s
Exit(s) == pc' = "done" /\ exitStatus' = s


(***************************************************************************)
(* linkedin_playwright.main                                                *)
(***************************************************************************)
\* lines 270-271: get_google_creds and get_sheet_data; an exception of
\* either is not caught and ends the process with status 1
MainFetch ==
    /\ pc = "start"
    /\ entry = "playwright"
    /\ log' = Append(log, "sheets.get")
    /\ \/ pc' = "select" /\ UNCHANGED << exitStatus, exc >>
       \/ exc' = [kind |-> "SheetError", at |-> "sheets.get"] /\ Exit(1)
    /\ UNCHANGED << entry, LINKEDIN_EMAIL, LINKEDIN_PASSWORD, scriptDir, data, slot,
                    rng, post_text, image_path, files, downloads, fingerprint,
                    browser, launchArgs, contextCfg, page, i, stageFailure, posted,
                    current_url, apiSecrets, apiLib >>

\* lines 272-302 without the call of get_image_path
MainSelect ==
    /\ pc = "select"
    /\ entry = "playwright"
    /\ IF Len(data) < 2 THEN Exit(1) /\ UNCHANGED post_text
       ELSE IF ~HasTodayRow THEN Exit(0) /\ UNCHANGED post_text
       ELSE IF ~InHeaders(text_col) THEN Exit(1) /\ UNCHANGED post_text
       ELSE /\ post_text' = RowText
            /\ pc' = IF HasImageCell THEN "get_image" ELSE "post"
            /\ UNCHANGED exitStatus
    /\ UNCHANGED << entry, LINKEDIN_EMAIL, LINKEDIN_PASSWORD, scriptDir, data, slot,
                    rng, image_path, files, downloads, fingerprint, browser,
                    launchArgs, contextCfg, page, i, exc, stageFailure, posted, log,
                    current_url, apiSecrets, apiLib >>

\* get_image_path(today_row[img_idx].strip()), lines 59-82
GetImagePath ==
    /\ pc = "get_image"
    /\ LET image_cell == Strip(ImageCell)
           local_path == IMAGES_DIR \o image_cell
       IN  IF IsUrl(image_cell)
           THEN /\ downloads' = downloads + 1
                /\ log' = Append(log, "requests.get")
                /\ \/ image_path' = TempFile /\ files' = files \cup {TempFile}
                   \/ image_path' = None /\ UNCHANGED files
           ELSE /\ image_path' = IF local_path \in files THEN local_path ELSE None
                /\ UNCHANGED << files, downloads, log >>
    /\ pc' = "post"
    /\ UNCHANGED << entry, exitStatus, LINKEDIN_EMAIL, LINKEDIN_PASSWORD, scriptDir,
                    data, slot, rng, post_text, fingerprint, browser, launchArgs,
                    contextCfg, page, i, exc, stageFailure, posted, current_url,
                    apiSecrets, apiLib >>

(***************************************************************************)
(* post_to_linkedin                                                        *)
(***************************************************************************)
\* what stays as it is while the browser is driven
Pipeline == << entry, LINKEDIN_EMAIL, LINKEDIN_PASSWORD, scriptDir, data, slot, rng,
               post_text, image_path, downloads, apiSecrets, apiLib >>

\* lines 123-125
CheckCredentials ==
    /\ pc = "post"
    /\ IF Falsy(LINKEDIN_EMAIL) \/ Falsy(LINKEDIN_PASSWORD)
       THEN Exit(1)
       ELSE pc' = "with" /\ UNCHANGED exitStatus
    /\ UNCHANGED << Pipeline, files, fingerprint, browser, launchArgs, contextCfg,
                    page, i, exc, stageFailure, posted, log, current_url >>

\* line 126: entering `with sync_playwright()`; a failure to start the driver
\* is raised outside the try block and reaches main uncaught
StartPlaywright ==
    /\ pc = "with"
    /\ log' = Append(log, "sync_playwright")
    /\ \/ pc' = "fingerprint" /\ UNCHANGED << exitStatus, exc >>
       \/ exc' = [kind |-> "PlaywrightError", at |-> "sync_playwright"] /\ Exit(1)
    /\ UNCHANGED << Pipeline, files, fingerprint, browser, launchArgs, contextCfg,
                    page, i, stageFailure, posted, current_url >>

\* lines 129-132
ChooseFingerprint ==
    /\ pc = "fingerprint"
    /\ fingerprint' = [ user_agent  |-> user_agents[rng.ua],
                        viewport    |-> sizes[rng.vp],
                        timezone    |-> timezones[rng.tz],
                        geolocation |-> locations[rng.geo] ]
    /\ pc' = "launch"
    /\ UNCHANGED << Pipeline, exitStatus, files, browser, launchArgs, contextCfg,
                    page, i, exc, stageFailure, posted, log, current_url >>

\* an exception raised in the try block goes to the except clause (line 249)
Raise(e) == pc' = "except" /\ exc' = e /\ stageFailure' = e

\* the wait_for_selector calls whose result the code tests with `if not x: raise`
SelectorWaits ==
    { "wait:session_key", "wait:session_password", "wait:submit", "wait:start_post",
      "wait:textbox", "wait:add_photo", "wait:file_input", "wait:post_image",
      "wait:share.post" }

\* how a call can fail: the library raises (a timeout, a closed page), or a
\* selector wait returns nothing and the code raises "Could not find ..."
FailKinds(op) ==
    IF op \in SelectorWaits THEN {"PlaywrightError", "NotFound"} ELSE {"PlaywrightError"}

\* a straight run of calls on the page: all succeed, or the k-th one fails
\* and the rest is not reached
PageStep(from, ops, to) ==
    /\ pc = from
    /\ \/ /\ log' = log \o ops
          /\ pc' = to
          /\ UNCHANGED << exc, stageFailure >>
       \/ \E k \in 1..Len(ops) : \E kind \in FailKinds(ops[k]) :
            /\ log' = log \o SubSeq(ops, 1, k)
            /\ Raise([kind |-> kind, at |-> ops[k]])

\* `for c in text: element.type(c)` followed by page.wait_for_timeout
TypeLoop(from, text, op, to) ==
    /\ pc = from
    /\ IF i < Len(text)
       THEN /\ log' = Append(log, op)
            /\ \/ i' = i + 1 /\ UNCHANGED << pc, exc, stageFailure >>
               \/ Raise([kind |-> "PlaywrightError", at |-> op]) /\ UNCHANGED i
       ELSE /\ log' = Append(log, "pause")
            /\ \/ i' = 0 /\ pc' = to /\ UNCHANGED << exc, stageFailure >>
               \/ Raise([kind |-> "PlaywrightError", at |-> "pause"]) /\ UNCHANGED i

\* lines 138-145
LaunchBrowser ==
    /\ pc = "launch"
    /\ log' = Append(log, "launch")
    /\ launchArgs' = [width |-> fingerprint.viewport[1], height |-> fingerprint.viewport[2]]
    /\ \/ browser' = "open" /\ pc' = "new_context" /\ UNCHANGED << exc, stageFailure >>
       \/ Raise([kind |-> "PlaywrightError", at |-> "launch"]) /\ UNCHANGED browser
    /\ UNCHANGED << Pipeline, exitStatus, files, fingerprint, contextCfg, page, i,
                    posted, current_url >>

\* a variant that leaves the context at the library's default viewport
NewContext_DefaultViewport ==
    /\ PageStep("new_context", << "new_context", "add_init_script", "add_init_script",
                                  "add_init_script", "add_init_script" >>, "new_page")
    /\ contextCfg' = [ viewport    |-> [width |-> 1280, height |-> 720],
                       user_agent  |-> fingerprint.user_agent,
                       locale      |-> "en-US",
                       timezone_id |-> fingerprint.timezone,
                       geolocation |-> [latitude |-> fingerprint.geolocation[1],
                                        longitude |-> fingerprint.geolocation[2]] ]
    /\ UNCHANGED << Pipeline, exitStatus, files, fingerprint, browser, launchArgs,
                    page, i, posted, current_url >>

\* lines 146-164
NewContext ==
    /\ PageStep("new_context", << "new_context", "add_init_script", "add_init_script",
                                  "add_init_script", "add_init_script" >>, "new_page")
    /\ contextCfg' = [ viewport    |-> [width |-> fingerprint.viewport[1],
                                        height |-> fingerprint.viewport[2]],
                       user_agent  |-> fingerprint.user_agent,
                       locale      |-> "en-US",
                       timezone_id |-> fingerprint.timezone,
                       geolocation |-> [latitude |-> fingerprint.geolocation[1],
                                        longitude |-> fingerprint.geolocation[2]] ]
    /\ UNCHANGED << Pipeline, exitStatus, files, fingerprint, browser, launchArgs,
                    page, i, posted, current_url >>

\* line 165
NewPage ==
    /\ pc = "new_page"
    /\ log' = Append(log, "new_page")
    /\ \/ page' = "set" /\ pc' = "goto_home" /\ UNCHANGED << exc, stageFailure >>
       \/ Raise([kind |-> "PlaywrightError", at |-> "new_page"]) /\ UNCHANGED page
    /\ UNCHANGED << Pipeline, exitStatus, files, fingerprint, browser, launchArgs,
                    contextCfg, i, posted, current_url >>

\* what the page steps below leave alone
Session == << Pipeline, exitStatus, files, fingerprint, browser, launchArgs,
              contextCfg, page, posted >>

\* lines 167-168
GotoHome ==
    /\ PageStep("goto_home", << "goto:home", "load_state" >>, "goto_login")
    /\ UNCHANGED << Session, i, current_url >>

\* lines 170-171
GotoLogin ==
    /\ PageStep("goto_login", << "goto:login", "load_state" >>, "mouse_move")
    /\ UNCHANGED << Session, i, current_url >>

\* line 173
MouseMove ==
    /\ PageStep("mouse_move", << "mouse.move" >>, "find_inputs")
    /\ UNCHANGED << Session, i, current_url >>

\* lines 175-180
FindLoginInputs ==
    /\ PageStep("find_inputs", << "wait:session_key", "wait:session_password" >>,
                "type_email")
    /\ UNCHANGED << Session, i, current_url >>

\* lines 182-184
TypeEmail ==
    /\ TypeLoop("type_email", LINKEDIN_EMAIL, "type:email", "type_password")
    /\ UNCHANGED << Session, current_url >>

\* lines 186-188
TypePassword ==
    /\ TypeLoop("type_password", LINKEDIN_PASSWORD, "type:password", "sign_in")
    /\ UNCHANGED << Session, current_url >>

\* lines 190-193
ClickSignIn ==
    /\ PageStep("sign_in", << "wait:submit", "click:submit" >>, "wait_feed")
    /\ UNCHANGED << Session, i, current_url >>


\* the locations page.url can show when the landing wait gave up
Urls ==
    { << "https://www.linkedin.com", "login" >>,
      << "https://www.linkedin.com", "uas", "login-submit" >>,
      << "https://www.linkedin.com", "checkpoint", "lg", "login-submit" >>,
      << "https://www.linkedin.com", "challenge", "verify" >> }

\* line 200
IsChallengeUrl_CheckpointOnly(url) == Contains(url, "checkpoint")

IsChallengeUrl(url) == Contains(url, "checkpoint") \/ Contains(url, "challenge")

\* a variant that goes on when the landing wait gave up
WaitForFeed_IgnoreTimeout ==
    /\ pc = "wait_feed"
    /\ pc' = "wait_loaded"
    /\ \/ /\ log' = Append(log, "wait_for_url:feed")
          /\ UNCHANGED current_url
       \/ \E url \in Urls :
            /\ log' = log \o << "wait_for_url:feed", "page.url" >>
            /\ current_url' = url
    /\ UNCHANGED << exc, stageFailure, Session, i >>

\* lines 195-202
WaitForFeed ==
    /\ pc = "wait_feed"
    /\ \/ /\ log' = Append(log, "wait_for_url:feed")
          /\ pc' = "wait_loaded"
          /\ UNCHANGED << exc, stageFailure, current_url >>
       \/ \E url \in Urls :
            /\ log' = log \o << "wait_for_url:feed", "page.url" >>
            /\ current_url' = url
            /\ IF IsChallengeUrl(url)
               THEN Raise([kind |-> "SecurityCheck", at |-> "wait_for_url:feed"])
               ELSE Raise([kind |-> "PlaywrightError", at |-> "wait_for_url:feed"])
    /\ UNCHANGED << Session, i >>

\* line 203
WaitLoaded ==
    /\ PageStep("wait_loaded", << "load_state" >>, "scroll")
    /\ UNCHANGED << Session, i, current_url >>

\* lines 206-209: random.randint(1, 3) rounds of wheel and pause, then a pause
Scroll ==
    /\ pc = "scroll"
    /\ IF i < rng.scrolls
       THEN /\ PageStep("scroll", << "mouse.wheel", "pause" >>, "scroll")
            /\ i' = i + 1
       ELSE /\ PageStep("scroll", << "pause" >>, "start_post")
            /\ i' = 0
    /\ UNCHANGED << Session, current_url >>

\* lines 211-214
StartPost ==
    /\ PageStep("start_post", << "wait:start_post", "click:start_post" >>, "textbox")
    /\ UNCHANGED << Session, i, current_url >>

\* lines 216-218
FindTextbox ==
    /\ PageStep("textbox", << "wait:textbox" >>, "type_text")
    /\ UNCHANGED << Session, i, current_url >>

\* lines 220-222
TypeText ==
    /\ TypeLoop("type_text", post_text, "type:text", "attach")
    /\ UNCHANGED << Session, current_url >>

\* line 223
HasImage_Inverted == image_path # None /\ image_path \notin files

HasImage == image_path # None /\ image_path \in files

\* lines 225-236
AttachOps ==
    << "wait:add_photo", "click:add_photo", "wait:file_input", "set_input_files",
       "wait:post_image" >>

\* a variant that posts the text alone when the image did not render: the
\* failure of the render wait is caught and the run goes on to the post button
AttachImage_TextOnlyFallback ==
    /\ pc = "attach"
    /\ HasImage
    /\ log' = log \o AttachOps
    /\ pc' = "before_post"
    /\ \/ UNCHANGED stageFailure
       \/ stageFailure' = [kind |-> "PlaywrightError", at |-> "wait:post_image"]
    /\ UNCHANGED << exc, Session, i, current_url >>

\* lines 223-236
AttachImage ==
    /\ HasImage
    /\ PageStep("attach", AttachOps, "before_post")
    /\ UNCHANGED << Session, i, current_url >>

\* lines 237-238
NoImage ==
    /\ pc = "attach"
    /\ ~HasImage
    /\ pc' = "before_post"
    /\ UNCHANGED << Session, i, exc, stageFailure, log, current_url >>

\* a variant that tries the click again when it failed
ClickPost_Retry ==
    /\ pc = "before_post"
    /\ log' = log \o << "pause", "wait:share.post", "click:share.post" >>
    /\ pc' \in {"settle", "before_post"}
    /\ UNCHANGED << exc, stageFailure, Session, i, current_url >>

\* lines 239-245
ClickPost ==
    /\ PageStep("before_post", << "pause", "wait:share.post", "click:share.post" >>,
                "settle")
    /\ UNCHANGED << Session, i, current_url >>

\* a variant that waits, with no timeout, for a confirmation of the post that
\* the page never shows
Settle_NoTimeout ==
    /\ pc = "settle"
    /\ \E k \in 1..Len(log) : log[k] = "post_confirmed"
    /\ posted' = TRUE
    /\ pc' = "finally"
    /\ UNCHANGED << Pipeline, exitStatus, files, fingerprint, browser, launchArgs,
                    contextCfg, page, i, exc, stageFailure, log, current_url >>

\* lines 247-248
Settle ==
    /\ PageStep("settle", << "pause" >>, "finally")
    /\ posted' = (pc' = "finally")
    /\ UNCHANGED << Pipeline, exitStatus, files, fingerprint, browser, launchArgs,
                    contextCfg, page, i, current_url >>

\* page.screenshot(path="error_screenshot.png")
ScreenshotFile == << "error_screenshot.png" >>

\* line 251
PageInLocals_Never == FALSE

PageInLocals == page = "set"

\* lines 249-259: the except clause; a failing screenshot is caught and
\* printed, and the exception is raised again
HandleError ==
    /\ pc = "except"
    /\ IF PageInLocals
       THEN /\ log' = log \o << "page.url", "screenshot" >>
            /\ \/ files' = files \cup {ScreenshotFile}
               \/ UNCHANGED files
       ELSE UNCHANGED << log, files >>
    /\ pc' = "finally"
    /\ UNCHANGED << Pipeline, exitStatus, fingerprint, browser, launchArgs,
                    contextCfg, page, i, exc, stageFailure, posted, current_url >>

\* line 261
BrowserInLocals_OnSuccessOnly == browser # "unset" /\ exc = NoExc

BrowserInLocals == browser # "unset"

\* lines 260-262: browser.close() is not guarded; when it raises, the rest
\* of the finally clause is skipped and its exception replaces the one in flight
CloseBrowser ==
    /\ pc = "finally"
    /\ IF BrowserInLocals
       THEN /\ log' = Append(log, "browser.close")
            /\ \/ browser' = "closed" /\ pc' = "remove" /\ UNCHANGED exc
               \/ /\ exc' = [kind |-> "PlaywrightError", at |-> "browser.close"]
                  /\ pc' = "with_exit"
                  /\ UNCHANGED browser
       ELSE pc' = "remove" /\ UNCHANGED << log, browser, exc >>
    /\ UNCHANGED << Pipeline, exitStatus, files, fingerprint, launchArgs, contextCfg,
                    page, i, stageFailure, posted, current_url >>

\* line 263
IsTempPath(path) == path # None /\ StartsWith(path, TempDir)

\* lines 263-267: an exception of os.remove is swallowed
RemoveTemp ==
    /\ pc = "remove"
    /\ IF IsTempPath(image_path)
       THEN /\ log' = Append(log, "os.remove")
            /\ \/ files' = files \ {image_path}
               \/ UNCHANGED files
       ELSE UNCHANGED << log, files >>
    /\ pc' = "with_exit"
    /\ UNCHANGED << Pipeline, exitStatus, fingerprint, browser, launchArgs,
                    contextCfg, page, i, exc, stageFailure, posted, current_url >>

\* leaving `with sync_playwright()` (line 126), then back in main (line 302):
\* an exception in flight is not caught there and ends the process with
\* status 1; a normal return ends it with status 0
WithExit ==
    /\ pc = "with_exit"
    /\ log' = Append(log, "playwright.stop")
    /\ Exit(IF exc = NoExc THEN 0 ELSE 1)
    /\ UNCHANGED << Pipeline, files, fingerprint, browser, launchArgs, contextCfg,
                    page, i, exc, stageFailure, posted, current_url >>


(***************************************************************************)
(* main.main and post_to_linkedin_and_update_sheet (main.py)               *)
(***************************************************************************)
ApiFrame == << entry, LINKEDIN_EMAIL, LINKEDIN_PASSWORD, scriptDir, data, slot, rng,
               image_path, files, downloads, fingerprint, browser, launchArgs,
               contextCfg, page, i, stageFailure, current_url, apiSecrets, apiLib >>

\* main.py lines 101-116
ApiCheckSecrets ==
    /\ pc = "start"
    /\ entry = "api"
    /\ IF apiSecrets THEN pc' = "api_fetch" /\ UNCHANGED exitStatus ELSE Exit(1)
    /\ UNCHANGED << ApiFrame, post_text, exc, posted, log >>

\* main.py lines 118-119
ApiFetch ==
    /\ pc = "api_fetch"
    /\ log' = Append(log, "sheets.get")
    /\ \/ pc' = "api_select" /\ UNCHANGED << exitStatus, exc >>
       \/ exc' = [kind |-> "SheetError", at |-> "sheets.get"] /\ Exit(1)
    /\ UNCHANGED << ApiFrame, post_text, posted >>

\* main.py lines 120-145: every way out of main here is a plain return
ApiSelect ==
    /\ pc = "api_select"
    /\ IF Len(data) < 2
       THEN Exit(0) /\ log' = Append(log, "send_email") /\ UNCHANGED post_text
       ELSE IF ~HasTodayRow \/ ~InHeaders(text_col)
       THEN Exit(0) /\ UNCHANGED << log, post_text >>
       ELSE IF Len(today_row) < IndexOf(text_col) \/ Strip(today_row[IndexOf(text_col)]) = << >>
       THEN Exit(0) /\ UNCHANGED << log, post_text >>
       ELSE /\ post_text' = today_row[IndexOf(text_col)]
            /\ pc' = "api_post"
            /\ UNCHANGED << log, exitStatus >>
    /\ UNCHANGED << ApiFrame, exc, posted >>

\* main.py lines 79-98 and the return of main: the missing cookies, the
\* missing package, the missing create_post and any exception of the
\* library are printed, and the function returns in every case
ApiPost ==
    /\ pc = "api_post"
    /\ IF ~apiSecrets \/ apiLib = "missing"
       THEN UNCHANGED << log, posted >>
       ELSE \/ log' = Append(log, "Linkedin()") /\ UNCHANGED posted
            \/ /\ apiLib = "no_create_post"
               /\ log' = Append(log, "Linkedin()")
               /\ UNCHANGED posted
            \/ /\ apiLib = "ok"
               /\ log' = log \o << "Linkedin()", "create_post" >>
               /\ posted' \in BOOLEAN
    /\ Exit(0)
    /\ UNCHANGED << ApiFrame, post_text, exc >>

(***************************************************************************)
(* The run.                                                                *)
(***************************************************************************)
Next ==
    \/ MainFetch
    \/ MainSelect
    \/ GetImagePath
    \/ CheckCredentials
    \/ StartPlaywright
    \/ ChooseFingerprint
    \/ LaunchBrowser
    \/ NewContext
    \/ NewPage
    \/ GotoHome
    \/ GotoLogin
    \/ MouseMove
    \/ FindLoginInputs
    \/ TypeEmail
    \/ TypePassword
    \/ ClickSignIn
    \/ WaitForFeed
    \/ WaitLoaded
    \/ Scroll
    \/ StartPost
    \/ FindTextbox
    \/ TypeText
    \/ AttachImage
    \/ NoImage
    \/ ClickPost
    \/ Settle
    \/ HandleError
    \/ CloseBrowser
    \/ RemoveTemp
    \/ WithExit
    \/ ApiCheckSecrets
    \/ ApiFetch
    \/ ApiSelect
    \/ ApiPost

Spec == Init /\ [][Next]_vars


\* the program is one thread of control: while a step is possible, it is taken
FairSpec == Spec /\ WF_vars(Next)

(***************************************************************************)
(* Reading the run.                                                        *)
(***************************************************************************)
Count(op) == Cardinality({ k \in 1..Len(log) : log[k] = op })

Logged(op) == \E k \in 1..Len(log) : log[k] = op

Ended == pc = "done"

\* a stage of the try block raised
StageFailed == stageFailure # NoExc

\* the calls of the except and finally clauses and of leaving the with block
DiagnosticOps == { "page.url", "screenshot" }
CleanupOps == { "browser.close", "os.remove", "playwright.stop" }

\* the handler's capture: page.url is read, then the screenshot is taken, at
\* positions k-1 and k of the log, with no browser.close before them
CaptureAt(k) ==
    /\ k > 1
    /\ log[k] = "screenshot"
    /\ log[k - 1] = "page.url"
    /\ \A m \in 1..k : log[m] # "browser.close"

\* the calls that compose or publish the post
ComposeOps ==
    { "wait:start_post", "click:start_post", "wait:textbox", "type:text",
      "wait:add_photo", "click:add_photo", "wait:file_input", "set_input_files",
      "wait:post_image", "wait:share.post", "click:share.post" }

(***************************************************************************)
(* C1: in post_to_linkedin the browser is launched at most once per run;   *)
(* a run that launched it calls browser.close() exactly once by the time   *)
(* it ends, whether it succeeded or a stage failed; and nothing is done    *)
(* with the page or the context after the close, the screenshot included.  *)
(***************************************************************************)
C1_BrowserClosedOnceAndLast ==
    /\ Count("launch") <= 1
    /\ Count("browser.close") <= 1
    /\ (Ended /\ browser # "unset") => Count("browser.close") = 1
    /\ \A k \in 1..Len(log) :
         log[k] = "browser.close" =>
           /\ browser # "unset"
           /\ \A m \in (k + 1)..Len(log) : log[m] \in CleanupOps \ {"browser.close"}

\* a run in which a stage failed, the screenshot was taken and the browser
\* was then closed
C1_Witness ==
    /\ Ended
    /\ StageFailed
    /\ Logged("screenshot")
    /\ Count("browser.close") = 1

(***************************************************************************)
(* C2: when get_image_path downloaded the image into a temporary file,     *)
(* the download was made once and the file is gone when the run has ended, *)
(* whatever the outcome.                                                   *)
(***************************************************************************)
C2_TempFileGoneAtEnd ==
    /\ downloads <= 1
    /\ (Ended /\ image_path = TempFile) => TempFile \notin files

(***************************************************************************)
(* C3: when the wait for the rendered image fails after the file was       *)
(* supplied, the post button is never clicked, the post is not reported,   *)
(* and the run ends with an exception and status 1.                        *)
(***************************************************************************)
C3_NoPostWithoutRenderedImage ==
    stageFailure.at = "wait:post_image" =>
        /\ Logged("set_input_files")
        /\ ~Logged("click:share.post")
        /\ ~Logged("wait:share.post")
        /\ ~posted
        /\ exc # NoExc
        /\ Ended => exitStatus = 1

\* the render wait returned nothing and the run has ended
C3_Witness ==
    /\ Ended
    /\ stageFailure = [kind |-> "NotFound", at |-> "wait:post_image"]
    /\ exitStatus = 1

(***************************************************************************)
(* C4: when the wait for the feed URL fails, the failure raised is the     *)
(* security-check failure if the current URL holds "checkpoint" or         *)
(* "challenge", and the failure of the wait otherwise; the login is not    *)
(* tried again and no compose or publish call is made.                     *)
(***************************************************************************)
C4_ChallengeIsItsOwnFailure ==
    current_url # None =>
        /\ stageFailure =
             [ kind |-> IF Contains(current_url, "checkpoint")
                           \/ Contains(current_url, "challenge")
                        THEN "SecurityCheck" ELSE "PlaywrightError",
               at |-> "wait_for_url:feed" ]
        /\ Count("goto:login") = 1
        /\ Count("click:submit") = 1
        /\ Count("wait_for_url:feed") = 1
        /\ \A k \in 1..Len(log) : log[k] \notin ComposeOps
        /\ pc \in {"except", "finally"} => exc = stageFailure

\* the landing wait gave up on a challenge page and the run has ended
C4_Witness ==
    /\ Ended
    /\ current_url # None
    /\ Contains(current_url, "challenge")
    /\ stageFailure.kind = "SecurityCheck"

(***************************************************************************)
(* C5: the navigation to the login page is tried up to 3 times: the run    *)
(* gives up on it only when the third attempt has failed, and never makes  *)
(* more than 3 attempts.                                                   *)
(***************************************************************************)
C5_LoginNavigationRetried ==
    /\ Count("goto:login") <= 3
    /\ stageFailure.at = "goto:login" => Count("goto:login") = 3

(***************************************************************************)
(* C6: a run of post_to_linkedin that entered its try block performs both  *)
(* cleanup actions in its final step: the browser it launched is closed,   *)
(* and the image it was given in temporary storage is removed, each        *)
(* whatever the stage that failed and whatever the other cleanup did.      *)
(***************************************************************************)
C6_BothCleanupsAlways ==
    (Ended /\ fingerprint # NoFingerprint) =>
        /\ browser # "unset" => Count("browser.close") = 1
        /\ image_path = TempFile => Count("os.remove") = 1

(***************************************************************************)
(* C7: the login submit button and the post button are each clicked at     *)
(* most once in a run, and once a stage has failed the only calls made     *)
(* are those of the diagnostics and of the cleanup.                        *)
(***************************************************************************)
C7_NoRetryAfterFailure ==
    /\ Count("click:submit") <= 1
    /\ Count("click:share.post") <= 1
    /\ StageFailed =>
         \E k \in 1..Len(log) :
            /\ log[k] = stageFailure.at
            /\ \A m \in (k + 1)..Len(log) : log[m] \in DiagnosticOps \cup CleanupOps

\* the click of the post button failed and the run has ended
C7_Witness ==
    /\ Ended
    /\ stageFailure.at = "click:share.post"
    /\ Count("click:submit") = 1
    /\ Count("click:share.post") = 1

(***************************************************************************)
(* C8 as stated: every run in which a stage of the try block failed, the   *)
(* browser launch and the context creation included, has read page.url     *)
(* and taken the screenshot before the browser was closed.                 *)
(***************************************************************************)
C8_EveryFailureCaptured ==
    (StageFailed /\ pc \notin {"except"}) => \E k \in 1..Len(log) : CaptureAt(k)

(***************************************************************************)
(* C8 as amended: a failure raised once the page exists has page.url read  *)
(* and the screenshot attempted by the handler, before the browser is      *)
(* closed; a failure raised before the page exists (launch, context        *)
(* creation, page creation) has neither.                                   *)
(***************************************************************************)
C8_FailureWithPageCaptured ==
    (StageFailed /\ pc \notin {"except"}) =>
        IF page = "set"
        THEN \E k \in 1..Len(log) : CaptureAt(k)
        ELSE ~Logged("screenshot") /\ ~Logged("page.url")

\* a failure with the page open, captured, the browser closed afterwards
C8_Witness ==
    /\ Ended
    /\ stageFailure.at = "wait:textbox"
    /\ page = "set"
    /\ \E k \in 1..(Len(log) - 1) : CaptureAt(k) /\ log[k + 1] = "browser.close"

(***************************************************************************)
(* C9: after a stage failure the exception that reaches the caller of      *)
(* post_to_linkedin is the one the stage raised, and the run does not      *)
(* return normally.                                                        *)
(***************************************************************************)
C9_OriginalFailureReachesCaller ==
    (Ended /\ StageFailed) => exc = stageFailure /\ exitStatus = 1

(***************************************************************************)
(* C10: a run that entered the publish workflow and ended with status 0    *)
(* has published the post, from either entry point.                        *)
(***************************************************************************)
C10_SuccessStatusOnlyIfPublished ==
    (Ended /\ post_text # None /\ exitStatus = 0) => posted

(***************************************************************************)
(* C11: the human-mimicry calls (the mouse movement before the credential  *)
(* entry, the wheel events after the login) never make the run fail: no    *)
(* run has one of them as the failure of its stage.                        *)
(***************************************************************************)
C11_MimicryNeverFailsTheRun ==
    stageFailure.at \notin {"mouse.move", "mouse.wheel"}

(***************************************************************************)
(* C12: a run of linkedin_playwright.main that published did so with the   *)
(* image attached and its rendering confirmed whenever get_image_path      *)
(* returned a path; it published the text alone only when get_image_path   *)
(* returned nothing.                                                       *)
(***************************************************************************)
C12_TextOnlyOnlyIfUnresolved ==
    (entry = "playwright" /\ posted) =>
        IF image_path # None
        THEN /\ \E k \in 1..Len(log) : \E m \in (k + 1)..Len(log) : \E n \in (m + 1)..Len(log) :
                  /\ log[k] = "set_input_files"
                  /\ log[m] = "wait:post_image"
                  /\ log[n] = "click:share.post"
             /\ stageFailure = NoExc
        ELSE \A k \in 1..Len(log) : log[k] \notin {"click:add_photo", "set_input_files"}

\* a published run whose image cell was resolved to a local file
C12_Witness ==
    /\ Ended
    /\ entry = "playwright"
    /\ posted
    /\ image_path = IMAGES_DIR \o << "a.jpg" >>
    /\ Logged("wait:post_image")

(***************************************************************************)
(* C13: the cleanup removes a file only if this run downloaded it; the     *)
(* local image under the images directory is never deleted, wherever that  *)
(* directory is.                                                           *)
(***************************************************************************)
C13_LocalImageNeverDeleted ==
    /\ (IMAGES_DIR \o << "a.jpg" >>) \in files
    /\ Logged("os.remove") => downloads > 0

(***************************************************************************)
(* C14: every value of the fingerprint is a member of its pool; it is      *)
(* chosen before the browser is launched and never changes afterwards;     *)
(* the width and height given to firefox.launch are those given to         *)
(* new_context, and the context is configured with the fingerprint.        *)
(***************************************************************************)
InPool(x, pool) == \E k \in 1..Len(pool) : pool[k] = x

C14_FingerprintState ==
    /\ fingerprint # NoFingerprint =>
         /\ InPool(fingerprint.user_agent, user_agents)
         /\ InPool(fingerprint.viewport, sizes)
         /\ InPool(fingerprint.timezone, timezones)
         /\ InPool(fingerprint.geolocation, locations)
    /\ Logged("launch") =>
         /\ fingerprint # NoFingerprint
         /\ launchArgs = [width |-> fingerprint.viewport[1],
                          height |-> fingerprint.viewport[2]]
    /\ contextCfg # NoContextCfg =>
         /\ Logged("launch")
         /\ contextCfg.viewport = launchArgs
         /\ InPool(<< contextCfg.viewport.width, contextCfg.viewport.height >>, sizes)
         /\ contextCfg.user_agent = fingerprint.user_agent
         /\ contextCfg.timezone_id = fingerprint.timezone
         /\ contextCfg.geolocation = [latitude |-> fingerprint.geolocation[1],
                                      longitude |-> fingerprint.geolocation[2]]

C14_FingerprintFromPoolsAndFixed ==
    /\ []C14_FingerprintState
    /\ [][fingerprint # NoFingerprint => fingerprint' = fingerprint]_vars

\* a published run under the last viewport of the pool
C14_Witness ==
    /\ Ended
    /\ posted
    /\ fingerprint.viewport = << 1600, 900 >>
    /\ launchArgs.width = 1600
    /\ contextCfg.viewport.height = 900

(***************************************************************************)
(* C15: under fairness, a run that entered the try block of                *)
(* post_to_linkedin always ends, having gone through its finally clause    *)
(* and left the with block.                                                *)
(***************************************************************************)
C15_RunTerminates ==
    (pc = "fingerprint") ~> (Ended /\ Logged("playwright.stop"))

\* a run that ended after the landing wait gave up
C15_Witness ==
    /\ Ended
    /\ Logged("playwright.stop")
    /\ stageFailure.at = "wait_for_url:feed"
    /\ exitStatus = 1

(***************************************************************************)
(* C16: no compose call is made unless the wait for the feed URL was made  *)
(* before it and did not fail; the post button is clicked only after       *)
(* 'Start a post' was clicked, the text box was found and every character  *)
(* of the text was typed; post_to_linkedin reports the post only after     *)
(* that click.                                                             *)
(***************************************************************************)
C16_StagesInOrder ==
    /\ \A k \in 1..Len(log) :
         log[k] \in ComposeOps =>
           /\ current_url = None
           /\ \E m \in 1..(k - 1) : log[m] = "wait_for_url:feed"
    /\ \A k \in 1..Len(log) :
         log[k] = "click:share.post" =>
           \E a \in 1..(k - 1) : \E b \in (a + 1)..(k - 1) :
              /\ log[a] = "click:start_post"
              /\ log[b] = "wait:textbox"
              /\ Cardinality({ m \in (b + 1)..(k - 1) : log[m] = "type:text" })
                   = Len(post_text)
    /\ (entry = "playwright" /\ posted) =>
         \E k \in 1..Len(log) :
            /\ log[k] = "click:share.post"
            /\ \A m \in (k + 1)..Len(log) : log[m] \notin ComposeOps

\* a published run that typed a text of several characters
C16_Witness ==
    /\ Ended
    /\ posted
    /\ entry = "playwright"
    /\ Len(post_text) >= 2
    /\ Count("type:text") = Len(post_text)

(***************************************************************************)
(* C17: the posting function is never called with an empty or blank text,  *)
(* from either entry point.                                                *)
(***************************************************************************)
C17_NeverPostsEmptyText ==
    pc \in {"post", "api_post"} => Strip(post_text) # << >>

(***************************************************************************)
(* C18: with LINKEDIN_EMAIL or LINKEDIN_PASSWORD unset or empty, a run of  *)
(* linkedin_playwright.main that calls post_to_linkedin ends with status 1 *)
(* and has started no driver, launched no browser, navigated nowhere and   *)
(* typed nothing.                                                          *)
(***************************************************************************)
C18_NoAutomationWithoutCredentials ==
    ( /\ entry = "playwright"
      /\ \/ LINKEDIN_EMAIL = None \/ LINKEDIN_EMAIL = << >>
         \/ LINKEDIN_PASSWORD = None \/ LINKEDIN_PASSWORD = << >> ) =>
        /\ browser = "unset"
        /\ page = "unset"
        /\ \A k \in 1..Len(log) : log[k] \in {"sheets.get", "requests.get"}
        /\ (Ended /\ post_text # None) => exitStatus = 1

\* the password is empty and post_to_linkedin was called
C18_Witness ==
    /\ Ended
    /\ entry = "playwright"
    /\ LINKEDIN_EMAIL = << "x" >>
    /\ LINKEDIN_PASSWORD = << >>
    /\ post_text # None
    /\ exitStatus = 1

====
